---- MODULE Spec2Model ----
(***************************************************************************)
(* ks-wings: the deployment pipeline (routes/Deployment.js), the instance  *)
(* state store (states.json) and the session multiplexer (the WebSocket    *)
(* server of index.js), as state machines.                                 *)
(*                                                                         *)
(* Node runs every handler on one event loop: a handler runs without       *)
(* interruption from one await (or callback) to the next, so every action  *)
(* below is one such segment.  A file operation or a runtime round trip    *)
(* takes effect in the action that resumes the handler after it.           *)
(***************************************************************************)
EXTENDS Integers, Sequences, FiniteSets, TLC

VARIABLES
    variant,            \* which createContainer is mounted on POST /instances/create
    file,               \* storage/states.json
    volumes,            \* instance ids whose volumes/<Id> directory exists
    containers,         \* the runtime's containers, as the set of [id, name]
    running,            \* ids of the runtime's running containers
    pc,                 \* per request: where its handler is suspended
    body,               \* per request: req.body
    pending,            \* per request: the record updateState is writing
    states,             \* per request: the `states` object of updateState
    containerForState,  \* per request: the `containerForState` local
    container,          \* per request: the id of the `container` handle
    resp,               \* per request: the responses written to `res`
    trace,              \* per request: the stages it went through (history)
    commits,            \* per request: the records it wrote to the document (history)
    attempted,          \* per request: the install scripts whose download was attempted, in order
    lastDoc,            \* the document states.json held before the write in progress truncated it (history)
    attempt,            \* downloadFile: the `attempt` local
    dlpc,               \* downloadFile: where it is suspended
    requests,           \* downloadFile: the responses and errors of its https.get calls, in order
    waits,              \* downloadFile: the attempts after which it waited, with the delay
    readyState,         \* per connection: ws.readyState ("NONE" before it connects)
    url,                \* per connection: req.url, split at "/"
    isAuthenticated,    \* per connection: the `isAuthenticated` local
    closeCode,          \* per connection: the code of the close frame sent (0: none)
    closeReason,        \* per connection: the reason of the close frame sent
    wsOut,              \* per connection: the frames sent to the client
    inspecting,         \* per connection: container.inspect calls not yet called back
    execSessions,       \* per connection: setupExecSession calls
    statsSessions,      \* per connection: setupStatsStreaming calls
    runtimeCalls,       \* the runtime operations invoked, as [conn, op]
    received,           \* per connection: the frames received so far (history)
    lastMessage,        \* per connection: the frame handled last (history)
    presented,          \* per connection: it has sent an auth frame with the secret (history)
    timers,             \* per connection: its stats sessions (setInterval handles and locals)
    due,                \* the timers whose callback is due, as <<connection, session>>
    fetches,            \* the fetchStats calls in flight
    now,                \* seconds elapsed
    containerLogs,      \* the `containerLogs` object: per container id, its buffered chunks
    attaching,          \* per connection: container.logs calls not yet resolved
    logStreams,         \* per connection: the queues of its attached, undestroyed log streams
    produced,           \* number of log chunks the container has written
    missed,             \* chunks written while no exec session was attached (history)
    flushedWith,        \* per connection: `missed` when an exec session last attached to it, open (history)
    onDisk,             \* downloadFile: a file exists at path.join(dir, filename)
    uptimeInSeconds,    \* GET /stats: process.uptime() as the handler read it
    responseStats,      \* GET /stats: the `uptime` field of the response
    stream,             \* followProgress: the events the pull stream has still to emit
    emitted,            \* followProgress: the events the pull stream has emitted so far (history)
    allOutput,          \* followProgress: the `allOutput` local
    finished,           \* followProgress: the calls of onFinished, in order
    apiVersion,         \* Docker client: this.apiVersion
    kpc,                \* Docker client, per call: where _request is suspended, and its `path`
    version,            \* Docker client, per call: the `version` local of _request
    wire                \* Docker client: the requests sent and the probe answers received, in order (history)

\* The state of one downloadFile call.
\* The state of GET /stats, of one followProgress call and of the Docker client.
xvars == <<uptimeInSeconds, responseStats, stream, emitted, allOutput, finished,
           apiVersion, kpc, version, wire>>

lvars == <<attempt, dlpc, requests, waits, onDisk, xvars>>

dvars == <<variant, file, volumes, containers, running, pc, body, pending,
           states, containerForState, container, resp, trace, commits,
           attempted, lastDoc, lvars>>

\* The state of the exec and stats sessions.
svars == <<timers, due, fetches, now, containerLogs, attaching, logStreams,
           produced, missed, flushedWith>>

wvars == <<readyState, url, isAuthenticated, closeCode, closeReason, wsOut,
           inspecting, execSessions, statsSessions, runtimeCalls, received,
           lastMessage, presented, svars>>

vars == <<dvars, wvars>>

----------------------------------------------------------------------------
(* The universe of the model.                                              *)

Reqs == {"r1", "r2"}
Ids == {"i1", "i2"}
Variants == {"fixed", "earlier"}
Null == "null"
NoContainerLogs == [id \in {} |-> <<>>]
Calls == {"k1", "k2"}

\* The number of frames a connection receives.
MaxFrames == 2

Conns == {"w1", "w2"}

\* config.key, and a secret that differs from it.
ConfigKey == "key"
WrongKey == "wrong"
Undefined == "undefined"

\* A frame as the handler sees it: whether JSON.parse accepts it, msg.event,
\* whether msg.args is truthy, and msg.args[0].
Frame(json, event, hasArgs, password) ==
    [json |-> json, event |-> event, hasArgs |-> hasArgs, password |-> password]

NoMessage == Frame(FALSE, "", FALSE, Undefined)

\* The container id the runtime assigns to the container request r creates.
NewContainerId(r) == IF r = "r1" THEN "c1" ELSE "c2"
ContainerIds == {NewContainerId(r) : r \in Reqs}

NoRecord == [state |-> "absent", containerId |-> Null, diskLimit |-> 0]
EmptyDoc == [i \in Ids |-> NoRecord]

\* states.json: missing, truncated to zero bytes by a write in progress, or a
\* JSON document.
FileAbsent == [kind |-> "absent", doc |-> EmptyDoc]
FileTorn == [kind |-> "torn", doc |-> EmptyDoc]
FileJson(doc) == [kind |-> "json", doc |-> doc]

----------------------------------------------------------------------------
(* Port validation: parseInt(b.HostPort, 10) and the range test.           *)

Digits == <<"0", "1", "2", "3", "4", "5", "6", "7", "8", "9">>
IsDigit(ch) == \E d \in 1..10 : Digits[d] = ch
DigitVal(ch) == (CHOOSE d \in 1..10 : Digits[d] = ch) - 1

RECURSIVE ParseDigits(_, _, _, _)
\* The longest run of decimal digits of s from position i on: how many digits
\* were read and their value.
ParseDigits(s, i, n, acc) ==
    IF i > Len(s) \/ ~IsDigit(s[i])
    THEN [digits |-> n, val |-> acc]
    ELSE ParseDigits(s, i + 1, n + 1, acc * 10 + DigitVal(s[i]))

RECURSIVE SkipSpaces(_, _)
SkipSpaces(s, i) == IF i <= Len(s) /\ s[i] = " " THEN SkipSpaces(s, i + 1) ELSE i

\* parseInt(s, 10): leading white space is skipped, then an optional sign,
\* then as many digits as there are; NaN when there is none.
parseInt(s) ==
    LET i == SkipSpaces(s, 1)
        neg == i <= Len(s) /\ s[i] = "-"
        j == IF i <= Len(s) /\ s[i] \in {"-", "+"} THEN i + 1 ELSE i
        r == ParseDigits(s, j, 0, 0)
    IN  IF r.digits = 0
        THEN [nan |-> TRUE, val |-> 0]
        ELSE [nan |-> FALSE, val |-> IF neg THEN 0 - r.val ELSE r.val]

\* A validation that refuses only what is no number.
InvalidPortNaNOnly(p) == p.nan

\* An off-by-one range test: 0 passes.
InvalidPortFromZero(p) == p.nan \/ p.val < 0 \/ p.val > 65535

\* isNaN(p) || p < 1 || p > 65535
InvalidPort(p) == p.nan \/ p.val < 1 \/ p.val > 65535

NoPortBindings == <<<<<<"undefined">>>>>>

\* PortBindings is modelled as the sequence of its entries (Object.entries
\* order), each the sequence of the HostPort strings of its bindings.
AllHostPorts(pb) ==
    IF pb = NoPortBindings THEN {}
    ELSE UNION {{pb[k][b] : b \in DOMAIN pb[k]} : k \in DOMAIN pb}

\* The validation loop: the request is refused when some binding is invalid.
PortsRejected(pb) == \E hp \in AllHostPorts(pb) : InvalidPort(parseInt(hp))

\* Object.values(PortBindings)[0][0].HostPort of the earlier variant throws a
\* TypeError when there is no PortBindings, no entry or no first binding.
EarlierPrimaryPortThrows(pb) ==
    pb = NoPortBindings \/ Len(pb) = 0 \/ Len(pb[1]) = 0

----------------------------------------------------------------------------
(* The state store: readStates, writeStates, updateState.                  *)

DiskOrZero(b) == b.Disk

Record(state, containerId, b) ==
    [state |-> state, containerId |-> containerId, diskLimit |-> DiskOrZero(b)]

\* updateState(...) up to its first await: readStates tests existsSync and
\* either starts creating the document or starts reading it.
updateState(r, rec) ==
    /\ pending' = [pending EXCEPT ![r] = rec]
    /\ pc' = [pc EXCEPT ![r] =
                IF file.kind = "absent" THEN "rs_create_open" ELSE "rs_read"]

\* The catch block of the earlier variant records no container id.
CatchRecordEarlier(r) == Record("FAILED", Null, body[r])

\* updateState(Id, "FAILED", containerForState, Disk || 0)
CatchRecord(r) == Record("FAILED", containerForState[r], body[r])

\* The catch block of createContainer, up to the first await of its
\* updateState.
Catch(r) ==
    updateState(r, IF variant = "fixed" THEN CatchRecord(r)
                   ELSE CatchRecordEarlier(r))

\* A rejection inside updateState: in the try block it is caught; in the
\* catch block it rejects the handler's promise, and nothing answers.
Rethrow(r) ==
    IF pending[r].state = "FAILED"
    THEN /\ pc' = [pc EXCEPT ![r] = "rejected"]
         /\ UNCHANGED pending
    ELSE Catch(r)

\* fs.writeFile opens the file with O_TRUNC (or creates it) ...
writeFile_open(r) ==
    /\ pc[r] \in {"rs_create_open", "ws_open"}
    /\ file' = FileTorn
    /\ lastDoc' = IF file.kind = "json" THEN file.doc
                  ELSE IF file.kind = "absent" THEN EmptyDoc ELSE lastDoc
    /\ pc' = [pc EXCEPT ![r] =
                IF pc[r] = "rs_create_open" THEN "rs_create_data" ELSE "ws_data"]
    /\ UNCHANGED <<variant, volumes, containers, running, body, pending, states,
                   containerForState, container, resp, trace, commits>>
    /\ UNCHANGED <<attempted, lvars>>
    /\ UNCHANGED wvars

\* ... and then writes: here the "{}" readStates creates the document with.
readStates_create(r) ==
    /\ pc[r] = "rs_create_data"
    /\ file' = FileJson(EmptyDoc)
    /\ pc' = [pc EXCEPT ![r] = "rs_read"]
    /\ UNCHANGED <<variant, volumes, containers, running, body, pending, states,
                   containerForState, container, resp, trace, commits>>
    /\ UNCHANGED <<attempted, lastDoc, lvars>>
    /\ UNCHANGED wvars

\* readStates' readFile and JSON.parse, then states[volumeId] = {...} and
\* writeStates up to its writeFile.  An empty file does not parse.
readStates(r) ==
    /\ pc[r] = "rs_read"
    /\ IF file.kind = "torn"
       THEN /\ Rethrow(r)
            /\ UNCHANGED states
       ELSE /\ states' = [states EXCEPT ![r] =
                            [file.doc EXCEPT ![body[r].Id] = pending[r]]]
            /\ pc' = [pc EXCEPT ![r] = "ws_open"]
            /\ UNCHANGED pending
    /\ UNCHANGED <<variant, file, volumes, containers, running, body,
                   containerForState, container, resp, trace, commits>>
    /\ UNCHANGED <<attempted, lastDoc, lvars>>
    /\ UNCHANGED wvars

\* if (!res.headersSent) res.status(500).json(...)
Respond500(r) ==
    IF Len(resp[r]) = 0
    THEN Append(resp[r], [status |-> 500, containerId |-> Null])
    ELSE resp[r]

\* writeStates' writeFile completes, and the caller of updateState resumes:
\* after INSTALLING the pull, after READY the end of the handler, after
\* FAILED the 500 response.
writeStates(r) ==
    /\ pc[r] = "ws_data"
    /\ file' = FileJson(states[r])
    /\ commits' = [commits EXCEPT ![r] = Append(@, pending[r])]
    /\ pc' = [pc EXCEPT ![r] =
                IF pending[r].state = "INSTALLING" THEN "pull" ELSE "done"]
    /\ resp' = [resp EXCEPT ![r] =
                IF pending[r].state = "FAILED" THEN Respond500(r) ELSE @]
    /\ trace' = [trace EXCEPT ![r] =
                IF pending[r].state = "FAILED" /\ Len(resp[r]) = 0
                THEN @ \o <<pending[r].state, "500">>
                ELSE Append(@, pending[r].state)]
    /\ UNCHANGED <<variant, volumes, containers, running, body, pending, states,
                   containerForState, container>>
    /\ UNCHANGED <<attempted, lastDoc, lvars>>
    /\ UNCHANGED wvars

----------------------------------------------------------------------------
(* createContainer: the handler of POST /instances/create.                 *)

Ev(r, e) == trace' = [trace EXCEPT ![r] = Append(@, e)]

NoBody == [Id |-> "i1", PortBindings |-> NoPortBindings, Scripts |-> FALSE,
           Disk |-> 0]

\* The handler up to its first await, the fs.mkdir of the volume.  In
\* routes/Deployment.js the port bindings are validated first, and an invalid
\* one answers 400; the earlier variant has no validation.
createContainer(r, b) ==
    /\ pc[r] = "idle"
    /\ body' = [body EXCEPT ![r] = b]
    /\ IF variant = "fixed" /\ PortsRejected(b.PortBindings)
       THEN /\ resp' = [resp EXCEPT ![r] =
                         Append(@, [status |-> 400, containerId |-> Null])]
            /\ pc' = [pc EXCEPT ![r] = "done"]
            /\ Ev(r, "400")
       ELSE /\ pc' = [pc EXCEPT ![r] = "mkdir"]
            /\ UNCHANGED <<resp, trace>>
    /\ UNCHANGED <<variant, file, volumes, containers, running, pending, states,
                   containerForState, container, commits>>
    /\ UNCHANGED <<attempted, lastDoc, lvars>>
    /\ UNCHANGED wvars

\* fs.mkdir(volumePath, {recursive: true}) resolves or rejects (path.join
\* throws on a missing Id); then updateState(Id, "INSTALLING", null, Disk || 0).
\* The earlier variant reads the primary port in between, which can throw.
createContainer_mkdir(r) ==
    /\ pc[r] = "mkdir"
    /\ \E ok \in BOOLEAN :
         IF ok
         THEN /\ volumes' = volumes \cup {body[r].Id}
              /\ Ev(r, "volume")
              /\ IF variant = "earlier"
                    /\ EarlierPrimaryPortThrows(body[r].PortBindings)
                 THEN Catch(r)
                 ELSE updateState(r, Record("INSTALLING", Null, body[r]))
         ELSE /\ Catch(r)
              /\ UNCHANGED <<volumes, trace>>
    /\ UNCHANGED <<variant, file, containers, running, body, states,
                   containerForState, container, resp, commits>>
    /\ UNCHANGED <<attempted, lastDoc, lvars>>
    /\ UNCHANGED wvars

\* A failed pull or drain: routes/Deployment.js rejects into the catch block;
\* the earlier variant answers 500 from an inner catch and returns.
PullFailed(r) ==
    IF variant = "fixed"
    THEN /\ Catch(r)
         /\ UNCHANGED resp
    ELSE /\ resp' = [resp EXCEPT ![r] =
                      Append(@, [status |-> 500, containerId |-> Null])]
         /\ pc' = [pc EXCEPT ![r] = "done"]
         /\ UNCHANGED pending

\* docker.pull(Image): the response stream, or a rejection on a non-2xx status
\* or a socket error.
createContainer_pull(r) ==
    /\ pc[r] = "pull"
    /\ \E ok \in BOOLEAN :
         IF ok
         THEN /\ pc' = [pc EXCEPT ![r] = "drain"]
              /\ Ev(r, "pull")
              /\ UNCHANGED <<pending, resp>>
         ELSE /\ PullFailed(r)
              /\ trace' = [trace EXCEPT ![r] =
                    @ \o (IF variant = "fixed" THEN <<"pull">> ELSE <<"pull", "500">>)]
    /\ UNCHANGED <<variant, file, volumes, containers, running, body, states,
                   containerForState, container, commits>>
    /\ UNCHANGED <<attempted, lastDoc, lvars>>
    /\ UNCHANGED wvars

\* followProgress calls back at the end of the stream, with or without error.
createContainer_drain(r) ==
    /\ pc[r] = "drain"
    /\ \E ok \in BOOLEAN :
         IF ok
         THEN /\ pc' = [pc EXCEPT ![r] = "create"]
              /\ Ev(r, "drained")
              /\ UNCHANGED <<pending, resp>>
         ELSE /\ PullFailed(r)
              /\ trace' = [trace EXCEPT ![r] =
                    @ \o (IF variant = "fixed" THEN <<>> ELSE <<"500">>)]
    /\ UNCHANGED <<variant, file, volumes, containers, running, body, states,
                   containerForState, container, commits>>
    /\ UNCHANGED <<attempted, lastDoc, lvars>>
    /\ UNCHANGED wvars

\* The runtime refuses a second container of the same name.
NameTaken(name) == \E c \in containers : c.name = name

\* A handler that acknowledges before it has a container id.
AckContainerIdNull(r) == Null

\* containerId: container.id of the 202 body
AckContainerId(r) == NewContainerId(r)

\* docker.createContainer(options), containerForState = container.id and the
\* early 202; then the background work starts (the install scripts when
\* Scripts.Install is an array, else container.start()).
createContainer_create(r) ==
    /\ pc[r] = "create"
    /\ \E ok \in BOOLEAN :
         IF ok /\ ~NameTaken(body[r].Id)
         THEN /\ containers' = containers \cup
                    {[id |-> NewContainerId(r), name |-> body[r].Id]}
              /\ container' = [container EXCEPT ![r] = NewContainerId(r)]
              /\ containerForState' = [containerForState EXCEPT ![r] =
                    IF variant = "fixed" THEN NewContainerId(r) ELSE @]
              /\ resp' = [resp EXCEPT ![r] =
                    Append(@, [status |-> 202, containerId |-> AckContainerId(r)])]
              /\ trace' = [trace EXCEPT ![r] = @ \o <<"create", "202">>]
              /\ pc' = [pc EXCEPT ![r] =
                    IF body[r].Scripts THEN "provision" ELSE "start"]
              /\ UNCHANGED pending
         ELSE /\ Catch(r)
              /\ Ev(r, "create")
              /\ UNCHANGED <<containers, container, containerForState, resp>>
    /\ UNCHANGED <<variant, file, volumes, running, body, states, commits>>
    /\ UNCHANGED <<attempted, lastDoc, lvars>>
    /\ UNCHANGED wvars

\* Scripts.Install of a request that has install scripts.
InstallScripts(b) == IF b.Scripts THEN <<"s1", "s2">> ELSE <<>>

\* A loop that gives up at the first script whose download fails.
NextScriptStopOnError(r, ok) ==
    IF ok /\ Len(attempted[r]) + 1 < Len(InstallScripts(body[r]))
    THEN "provision" ELSE "replace"

\* for (const script of installScripts) { try { await downloadFile(...) }
\* catch { log } }: after a script the loop goes on to the next one, after
\* the last one downloadInstallScripts returns and replaceVariables runs.
NextScript(r, ok) ==
    IF Len(attempted[r]) + 1 < Len(InstallScripts(body[r]))
    THEN "provision" ELSE "replace"

\* downloadInstallScripts: the downloadFile of the next script returns, or
\* throws into the catch block of the loop body.
createContainer_provision(r) ==
    /\ pc[r] = "provision"
    /\ \E ok \in BOOLEAN :
         /\ attempted' = [attempted EXCEPT ![r] =
               Append(@, [script |-> InstallScripts(body[r])[Len(@) + 1],
                          downloaded |-> ok])]
         /\ pc' = [pc EXCEPT ![r] = NextScript(r, ok)]
    /\ Ev(r, "script")
    /\ UNCHANGED <<variant, file, volumes, containers, running, body, pending,
                   states, containerForState, container, resp, commits>>
    /\ UNCHANGED <<lastDoc, lvars>>
    /\ UNCHANGED wvars

\* replaceVariables, whose file operations can reject; then container.start()
\* is called.
createContainer_replace(r) ==
    /\ pc[r] = "replace"
    /\ Ev(r, "provision")
    /\ \E ok \in BOOLEAN :
         IF ok
         THEN /\ pc' = [pc EXCEPT ![r] = "start"]
              /\ UNCHANGED pending
         ELSE Catch(r)
    /\ UNCHANGED <<variant, file, volumes, containers, running, body, states,
                   containerForState, container, resp, commits>>
    /\ UNCHANGED <<attempted, lastDoc, lvars>>
    /\ UNCHANGED wvars

\* The record of a READY commit that forgets the container id.
ReadyRecordNull(r) == Record("READY", Null, body[r])

\* updateState(Id, "READY", container.id, Disk || 0)
ReadyRecord(r) == Record("READY", container[r], body[r])

\* container.start(), then the READY commit.
createContainer_start(r) ==
    /\ pc[r] = "start"
    /\ Ev(r, "start")
    /\ \E ok \in BOOLEAN :
         IF ok
         THEN /\ running' = running \cup {container[r]}
              /\ updateState(r, ReadyRecord(r))
         ELSE /\ Catch(r)
              /\ UNCHANGED running
    /\ UNCHANGED <<variant, file, volumes, containers, body, states,
                   containerForState, container, resp, commits>>
    /\ UNCHANGED <<attempted, lastDoc, lvars>>
    /\ UNCHANGED wvars

----------------------------------------------------------------------------
(* The specification of the deployment pipeline.                           *)

\* The request bodies of the seed scenarios: the happy create, a create
\* without port bindings or scripts, and the bad port.
Bodies ==
    {[Id |-> i, PortBindings |-> <<<<<<"1", "8", "0", "8", "0">>>>>>, Scripts |-> TRUE, Disk |-> 1] :
        i \in Ids}
    \cup {[Id |-> i, PortBindings |-> NoPortBindings, Scripts |-> FALSE, Disk |-> 0] :
        i \in Ids}
    \cup {[Id |-> i, PortBindings |-> <<<<<<"7", "0", "0", "0", "0">>>>>>, Scripts |-> FALSE, Disk |-> 0] :
        i \in Ids}

Init ==
    /\ variant \in Variants
    /\ file = FileAbsent
    /\ volumes = {}
    /\ containers = {}
    /\ running = {}
    /\ pc = [r \in Reqs |-> "idle"]
    /\ body = [r \in Reqs |-> NoBody]
    /\ pending = [r \in Reqs |-> NoRecord]
    /\ states = [r \in Reqs |-> EmptyDoc]
    /\ containerForState = [r \in Reqs |-> Null]
    /\ container = [r \in Reqs |-> Null]
    /\ resp = [r \in Reqs |-> <<>>]
    /\ trace = [r \in Reqs |-> <<>>]
    /\ commits = [r \in Reqs |-> <<>>]
    /\ attempted = [r \in Reqs |-> <<>>]
    /\ lastDoc = EmptyDoc
    /\ attempt = 0
    /\ dlpc = "idle"
    /\ requests = <<>>
    /\ waits = <<>>
    /\ onDisk = FALSE
    /\ uptimeInSeconds = 0
    /\ responseStats = Null
    /\ stream = <<>>
    /\ emitted = <<>>
    /\ allOutput = <<>>
    /\ finished = <<>>
    /\ apiVersion = Null
    /\ kpc = [k \in Calls |-> [at |-> "idle", path |-> Null]]
    /\ version = [k \in Calls |-> Null]
    /\ wire = <<>>
    /\ readyState = [c \in Conns |-> "NONE"]
    /\ url = [c \in Conns |-> <<>>]
    /\ isAuthenticated = [c \in Conns |-> FALSE]
    /\ closeCode = [c \in Conns |-> 0]
    /\ closeReason = [c \in Conns |-> ""]
    /\ wsOut = [c \in Conns |-> <<>>]
    /\ inspecting = [c \in Conns |-> 0]
    /\ execSessions = [c \in Conns |-> 0]
    /\ statsSessions = [c \in Conns |-> 0]
    /\ runtimeCalls = {}
    /\ received = [c \in Conns |-> 0]
    /\ lastMessage = [c \in Conns |-> NoMessage]
    /\ presented = [c \in Conns |-> FALSE]
    /\ timers = [c \in Conns |-> <<>>]
    /\ due = {}
    /\ fetches = {}
    /\ now = 0
    /\ containerLogs = NoContainerLogs
    /\ attaching = [c \in Conns |-> 0]
    /\ logStreams = [c \in Conns |-> <<>>]
    /\ produced = 0
    /\ missed = {}
    /\ flushedWith = [c \in Conns |-> {}]

Step(r) ==
    \/ createContainer_mkdir(r)
    \/ writeFile_open(r)
    \/ readStates_create(r)
    \/ readStates(r)
    \/ writeStates(r)
    \/ createContainer_pull(r)
    \/ createContainer_drain(r)
    \/ createContainer_create(r)
    \/ createContainer_provision(r)
    \/ createContainer_replace(r)
    \/ createContainer_start(r)

Next ==
    \/ \E r \in Reqs, b \in Bodies : createContainer(r, b)
    \/ \E r \in Reqs : Step(r)

Spec == Init /\ [][Next]_vars

\* The port strings of the boundary cases: 0, 1, 65535, 65536, 70000, -1, and
\* three strings that are no decimal number.
PortStrings ==
    {<<"0">>, <<"1">>, <<"6", "5", "5", "3", "5">>, <<"6", "5", "5", "3", "6">>,
     <<"7", "0", "0", "0", "0">>, <<"-", "1">>, <<"a", "b", "c">>,
     <<"8", "0", "a">>, <<>>}

\* Requests with no, one or two port bindings, under one or two container
\* ports, with and without install scripts.
PortBodies ==
    {[Id |-> "i1", PortBindings |-> pb, Scripts |-> sc, Disk |-> 0] :
        sc \in BOOLEAN,
        pb \in {NoPortBindings, <<>>}
               \cup {<<<<p>>>> : p \in PortStrings}
               \cup {<<<<p, q>>>> : p \in PortStrings, q \in PortStrings}
               \cup {<<<<p>>, <<q>>>> : p \in PortStrings, q \in PortStrings}}

\* One request, over all the port bindings.
NextPorts ==
    \/ \E b \in PortBodies : createContainer("r1", b)
    \/ Step("r1")

SpecPorts == Init /\ [][NextPorts]_vars

----------------------------------------------------------------------------
(* downloadFile: the retry loop of one asset download.                     *)

\* const maxAttempts = 3
maxAttempts == 3

\* setTimeout(r, 60000)
RetryWaitMs == 60000

\* What an https.get can come to: a response with status 200, 522 or another
\* one, or an "error" event.
Outcomes == {"200", "522", "404", "error"}

\* while (attempt < maxAttempts) { try { attempt++; await https.get ...
\* The loop ends, and downloadFile returns, when the attempts are used up.
LoopHead ==
    IF attempt < maxAttempts
    THEN /\ attempt' = attempt + 1
         /\ dlpc' = "request"
    ELSE /\ dlpc' = "returned"
         /\ UNCHANGED attempt

\* if (attempt === maxAttempts) throw err; else the loop goes on.
AfterUnlink ==
    IF attempt = maxAttempts
    THEN /\ dlpc' = "threw"
         /\ UNCHANGED attempt
    ELSE LoopHead

\* downloadFile(url, dir, filename) up to its first https.get;
\* createWriteStream(filePath) creates the file.
downloadFile ==
    /\ dlpc = "idle"
    /\ onDisk' = TRUE
    /\ LoopHead
    /\ UNCHANGED <<requests, waits, xvars>>
    /\ UNCHANGED <<variant, file, volumes, containers, running, pc, body, pending,
                   states, containerForState, container, resp, trace, commits,
                   attempted, lastDoc>>
    /\ UNCHANGED wvars

\* The https.get settles: on 522 the 60-second timer is awaited, on 200 the
\* pipeline; another status throws, and an "error" event rejects, into the
\* catch block, which awaits the unlink.
downloadFile_response(o) ==
    /\ dlpc = "request"
    /\ requests' = Append(requests, o)
    /\ dlpc' = CASE o = "522" -> "wait"
                 [] o = "200" -> "pipeline"
                 [] OTHER -> "unlink"
    /\ waits' = IF o = "522"
                THEN Append(waits, [attempt |-> attempt, ms |-> RetryWaitMs])
                ELSE waits
    /\ UNCHANGED <<attempt, onDisk, xvars>>
    /\ UNCHANGED <<variant, file, volumes, containers, running, pc, body, pending,
                   states, containerForState, container, resp, trace, commits,
                   attempted, lastDoc>>
    /\ UNCHANGED wvars

\* The timer of the 522 fires: continue.
downloadFile_wait ==
    /\ dlpc = "wait"
    /\ LoopHead
    /\ UNCHANGED <<requests, waits, onDisk, xvars>>
    /\ UNCHANGED <<variant, file, volumes, containers, running, pc, body, pending,
                   states, containerForState, container, resp, trace, commits,
                   attempted, lastDoc>>
    /\ UNCHANGED wvars

\* pipeline(response, writeStream) resolves (break: downloadFile returns) or
\* rejects into the catch block.
downloadFile_pipeline ==
    /\ dlpc = "pipeline"
    /\ \E ok \in BOOLEAN :
         dlpc' = IF ok THEN "returned" ELSE "unlink"
    /\ UNCHANGED <<attempt, requests, waits, onDisk, xvars>>
    /\ UNCHANGED <<variant, file, volumes, containers, running, pc, body, pending,
                   states, containerForState, container, resp, trace, commits,
                   attempted, lastDoc>>
    /\ UNCHANGED wvars

\* The unlink of the catch block settles (its own failure is ignored): the
\* last attempt's error is thrown, or the loop goes on.
downloadFile_unlink ==
    /\ dlpc = "unlink"
    /\ onDisk' = FALSE
    /\ AfterUnlink
    /\ UNCHANGED <<requests, waits, xvars>>
    /\ UNCHANGED <<variant, file, volumes, containers, running, pc, body, pending,
                   states, containerForState, container, resp, trace, commits,
                   attempted, lastDoc>>
    /\ UNCHANGED wvars

NextDl ==
    \/ downloadFile
    \/ \E o \in Outcomes : downloadFile_response(o)
    \/ downloadFile_wait
    \/ downloadFile_pipeline
    \/ downloadFile_unlink

\* One downloadFile call, in either variant of the file.
SpecDl == Init /\ [][NextDl]_vars

----------------------------------------------------------------------------
(* The session multiplexer: the WebSocket server of index.js.              *)

InvalidJson == Frame(FALSE, "{", FALSE, Undefined)
AuthFrame(password) == Frame(TRUE, "auth", TRUE, password)
EventFrame(event) == Frame(TRUE, event, FALSE, Undefined)

\* req.url.split("/"): "/exec/c1" is <<"", "exec", "c1">>.
ExecUrl == <<"", "exec", "c1">>
StatsUrl == <<"", "stats", "c1", "i1">>
UrlParts(u, n) == IF n + 1 <= Len(u) THEN u[n + 1] ELSE Undefined

\* JavaScript's falsy strings, undefined included.
Falsy(x) == x = Undefined \/ x = ""

\* req.url.startsWith("/" + kind + "/")
StartsWithKind(u, kind) == Len(u) >= 3 /\ u[1] = "" /\ u[2] = kind

\* ws.send(data): the frame goes out on an open socket; on a closing or closed
\* one ws (from 7.2 on) drops it.
Send(c, out, data) == IF readyState[c] = "OPEN" THEN Append(out, data) ELSE out

\* A connection opens: wss.on("connection") declares isAuthenticated = false.
connection(c, u) ==
    /\ readyState[c] = "NONE"
    /\ readyState' = [readyState EXCEPT ![c] = "OPEN"]
    /\ url' = [url EXCEPT ![c] = u]
    /\ isAuthenticated' = [isAuthenticated EXCEPT ![c] = FALSE]
    /\ UNCHANGED <<closeCode, closeReason, wsOut, inspecting, execSessions,
                   statsSessions, runtimeCalls, received, lastMessage, presented>>
    /\ UNCHANGED svars
    /\ UNCHANGED dvars

\* A test that lets every secret pass.
PasswordMatchesAny(password) == TRUE

\* password === config.key
PasswordMatches(password) == password = ConfigKey

\* A test that never misses the container id.
MissingContainerIdNever(u) == FALSE

\* const containerId = urlParts[2]; if (!containerId)
MissingContainerId(u) == Falsy(UrlParts(u, 2))

\* A dispatch that does not look at the flag.
MayDispatchAlways(c) == TRUE

\* else if (isAuthenticated)
MayDispatch(c) == isAuthenticated[c]

\* msg.event === "auth" && msg.args
IsAuth(m) == m.event = "auth" /\ m.hasArgs

\* The runtime operation an event of an authenticated connection invokes
\* (executeCommand and performPowerAction), Undefined for the other events.
EventOperation(event) ==
    CASE event = "cmd" -> "exec"
      [] event = "power:start" -> "start"
      [] event = "power:stop" -> "stop"
      [] event = "power:restart" -> "restart"
      [] OTHER -> Undefined

\* performPowerAction(ws, container, action) and executeCommand(ws, container,
\* command) invoke the runtime operation on the container.
performPowerAction(c, op) == runtimeCalls \cup {[conn |-> c, op |-> op]}

\* ws.on("message"): one inbound frame, handled to the end of the handler
\* (authenticateWebSocket and its callback included; handleWebSocketConnection
\* up to its container.inspect).
message(c, m) ==
    /\ readyState[c] \in {"OPEN", "CLOSING"}
    /\ received[c] < MaxFrames
    /\ received' = [received EXCEPT ![c] = @ + 1]
    /\ lastMessage' = [lastMessage EXCEPT ![c] = m]
    /\ presented' = [presented EXCEPT ![c] = @ \/ m = AuthFrame(ConfigKey)]
    /\ IF ~m.json
       THEN \* JSON.parse throws: "Invalid JSON", and the frame is dropped
            /\ wsOut' = [wsOut EXCEPT ![c] = Send(c, @, "Invalid JSON")]
            /\ UNCHANGED <<readyState, isAuthenticated, closeCode, closeReason,
                           inspecting, runtimeCalls>>
       ELSE IF IsAuth(m)
       THEN IF PasswordMatches(m.password)
            THEN IF MissingContainerId(url[c])
                 THEN \* banner, close(1008, ...), callback(false, null): the
                      \* second send and the second close find the socket closing
                      /\ wsOut' = [wsOut EXCEPT ![c] = Send(c, @, "connected!")]
                      /\ readyState' = [readyState EXCEPT ![c] = "CLOSING"]
                      /\ closeCode' = [closeCode EXCEPT ![c] =
                            IF readyState[c] = "OPEN" THEN 1008 ELSE @]
                      /\ closeReason' = [closeReason EXCEPT ![c] =
                            IF readyState[c] = "OPEN"
                            THEN "Container ID not specified" ELSE @]
                      /\ UNCHANGED <<isAuthenticated, inspecting, runtimeCalls>>
                 ELSE \* banner, callback(true, ...): handleWebSocketConnection
                      /\ wsOut' = [wsOut EXCEPT ![c] = Send(c, @, "connected!")]
                      /\ isAuthenticated' = [isAuthenticated EXCEPT ![c] = TRUE]
                      /\ inspecting' = [inspecting EXCEPT ![c] = @ + 1]
                      /\ runtimeCalls' = runtimeCalls \cup
                            {[conn |-> c, op |-> "inspect"]}
                      /\ UNCHANGED <<readyState, closeCode, closeReason>>
            ELSE \* callback(false, null)
                 /\ wsOut' = [wsOut EXCEPT ![c] = Send(c, @, "Authentication failed")]
                 /\ readyState' = [readyState EXCEPT ![c] = "CLOSING"]
                 /\ closeCode' = [closeCode EXCEPT ![c] =
                       IF readyState[c] = "OPEN" THEN 1008 ELSE @]
                 /\ closeReason' = [closeReason EXCEPT ![c] =
                       IF readyState[c] = "OPEN" THEN "Authentication failed" ELSE @]
                 /\ UNCHANGED <<isAuthenticated, inspecting, runtimeCalls>>
       ELSE IF MayDispatch(c)
       THEN IF MissingContainerId(url[c])
            THEN /\ readyState' = [readyState EXCEPT ![c] = "CLOSING"]
                 /\ closeCode' = [closeCode EXCEPT ![c] =
                       IF readyState[c] = "OPEN" THEN 1008 ELSE @]
                 /\ closeReason' = [closeReason EXCEPT ![c] =
                       IF readyState[c] = "OPEN"
                       THEN "Container ID not specified" ELSE @]
                 /\ UNCHANGED <<wsOut, isAuthenticated, inspecting, runtimeCalls>>
            ELSE IF EventOperation(m.event) # Undefined
            THEN /\ runtimeCalls' = performPowerAction(c, EventOperation(m.event))
                 /\ UNCHANGED <<readyState, isAuthenticated, closeCode,
                                closeReason, wsOut, inspecting>>
            ELSE /\ wsOut' = [wsOut EXCEPT ![c] = Send(c, @, "Unsupported event")]
                 /\ UNCHANGED <<readyState, isAuthenticated, closeCode,
                                closeReason, inspecting, runtimeCalls>>
       ELSE /\ wsOut' = [wsOut EXCEPT ![c] = Send(c, @, "Unauthorized access")]
            /\ readyState' = [readyState EXCEPT ![c] = "CLOSING"]
            /\ closeCode' = [closeCode EXCEPT ![c] =
                  IF readyState[c] = "OPEN" THEN 1008 ELSE @]
            /\ closeReason' = [closeReason EXCEPT ![c] =
                  IF readyState[c] = "OPEN" THEN "Unauthorized access" ELSE @]
            /\ UNCHANGED <<isAuthenticated, inspecting, runtimeCalls>>
    /\ UNCHANGED <<url, execSessions, statsSessions>>
    /\ UNCHANGED svars
    /\ UNCHANGED dvars

\* The log chunks the exec container writes, one line each.
Lines == <<"l1", "l2", "l3">>

\* formatLogMessage: the non-empty lines of the chunk, each wrapped in the
\* "[docker]" prefix.  The chunks of the model are one line each.
formatLogMessage(line) ==
    CASE line = "l1" -> "[docker] l1"
      [] line = "l2" -> "[docker] l2"
      [] line = "l3" -> "[docker] l3"
      [] OTHER -> ""

\* A session that starts every time with a fresh buffer.
initializeContainerLogsAlways(logs, id) ==
    [i \in DOMAIN logs \cup {id} |-> IF i = id THEN <<>> ELSE logs[i]]

\* if (!containerLogs[containerId]) initializeContainerLogs(containerId)
initializeContainerLogs(logs, id) ==
    [i \in DOMAIN logs \cup {id} |-> IF i \in DOMAIN logs THEN logs[i] ELSE <<>>]

RECURSIVE SendAll(_, _, _)
\* containerLogs[containerId].forEach(m => ws.send(formatLogMessage(m)))
SendAll(c, out, logs) ==
    IF logs = <<>> THEN out
    ELSE SendAll(c, Send(c, out, formatLogMessage(Head(logs))), Tail(logs))

\* const volumeId = urlParts[3] || 0
VolumeOf(u) == IF Falsy(UrlParts(u, 3)) THEN "0" ELSE UrlParts(u, 3)

\* The disk limit setupStatsStreaming reads from states.json: 0 when the file
\* is missing or does not parse, when it has no record of the volume, or when
\* the record's diskLimit is falsy.
ReadDiskLimit(f, vol) ==
    IF f.kind # "json" THEN 0
    ELSE IF vol \notin Ids THEN 0
    ELSE IF f.doc[vol].state = "absent" THEN 0
    ELSE f.doc[vol].diskLimit

\* setupStatsStreaming: the locals of a new stats session and its interval;
\* `store` remembers the document the limit was read from and `exceededSent`
\* whether a sample of the session said storageExceeded (history).
NewStatsSession(c) ==
    [diskLimit |-> ReadDiskLimit(file, VolumeOf(url[c])),
     hasAutoStopped |-> FALSE,
     active |-> TRUE,
     stops |-> 0,
     store |-> file,
     exceededSent |-> FALSE]

\* The callback of container.inspect in handleWebSocketConnection: on an
\* error "Container not found"; else the session of the URL's kind, or
\* close(1002).  setupExecSession runs streamDockerLogs up to its await of
\* container.logs (the buffered records are flushed first);
\* setupStatsStreaming runs to its end.
handleWebSocketConnection(c) ==
    /\ inspecting[c] > 0
    /\ inspecting' = [inspecting EXCEPT ![c] = @ - 1]
    /\ \E err \in BOOLEAN :
         IF err
         THEN /\ wsOut' = [wsOut EXCEPT ![c] = Send(c, @, "Container not found")]
              /\ UNCHANGED <<readyState, closeCode, closeReason, execSessions,
                             statsSessions, runtimeCalls, timers, attaching,
                             flushedWith, containerLogs>>
         ELSE IF StartsWithKind(url[c], "exec")
         THEN /\ execSessions' = [execSessions EXCEPT ![c] = @ + 1]
              /\ runtimeCalls' = runtimeCalls \cup {[conn |-> c, op |-> "logs"]}
              /\ containerLogs' =
                    initializeContainerLogs(containerLogs, UrlParts(url[c], 2))
              /\ wsOut' = [wsOut EXCEPT ![c] =
                    SendAll(c, @, containerLogs'[UrlParts(url[c], 2)])]
              /\ attaching' = [attaching EXCEPT ![c] = @ + 1]
              /\ flushedWith' = [flushedWith EXCEPT ![c] =
                    IF readyState[c] = "OPEN" THEN missed ELSE @]
              /\ UNCHANGED <<readyState, closeCode, closeReason, statsSessions,
                             timers>>
         ELSE IF StartsWithKind(url[c], "stats")
         THEN /\ statsSessions' = [statsSessions EXCEPT ![c] = @ + 1]
              /\ timers' = [timers EXCEPT ![c] = Append(@, NewStatsSession(c))]
              /\ UNCHANGED <<readyState, closeCode, closeReason, wsOut,
                             execSessions, runtimeCalls, attaching, flushedWith,
                             containerLogs>>
         ELSE /\ readyState' = [readyState EXCEPT ![c] =
                    IF @ = "OPEN" THEN "CLOSING" ELSE @]
              /\ closeCode' = [closeCode EXCEPT ![c] =
                    IF readyState[c] = "OPEN" THEN 1002 ELSE @]
              /\ closeReason' = [closeReason EXCEPT ![c] =
                    IF readyState[c] = "OPEN"
                    THEN "URL must start with /exec/ or /stats/" ELSE @]
              /\ UNCHANGED <<wsOut, execSessions, statsSessions, runtimeCalls,
                             timers, attaching, flushedWith, containerLogs>>
    /\ UNCHANGED <<url, isAuthenticated, received, lastMessage, presented>>
    /\ UNCHANGED <<due, fetches, now, logStreams, produced, missed>>
    /\ UNCHANGED dvars

\* clearInterval(statsInterval) of every "close" listener of the connection.
ClearIntervals(ts) == [k \in DOMAIN ts |-> [ts[k] EXCEPT !.active = FALSE]]

\* The client closes, or answers the server's close frame: the socket is
\* closed, no frame of it is handled any more, and the "close" listeners
\* registered so far run: every interval of the connection is cleared and
\* every log stream of it destroyed.
close(c) ==
    /\ readyState[c] \in {"OPEN", "CLOSING"}
    /\ readyState' = [readyState EXCEPT ![c] = "CLOSED"]
    /\ timers' = [timers EXCEPT ![c] = ClearIntervals(@)]
    /\ due' = {d \in due : d[1] # c}
    /\ logStreams' = [logStreams EXCEPT ![c] = <<>>]
    /\ UNCHANGED <<url, isAuthenticated, closeCode, closeReason, wsOut,
                   inspecting, execSessions, statsSessions, runtimeCalls,
                   received, lastMessage, presented>>
    /\ UNCHANGED <<fetches, now, containerLogs, attaching, produced, missed,
                   flushedWith>>
    /\ UNCHANGED dvars

----------------------------------------------------------------------------
(* The stats session: setupStatsStreaming and its fetchStats.              *)

\* The variables the session callbacks leave alone.
connVars == <<readyState, url, isAuthenticated, closeCode, closeReason,
              inspecting, execSessions, statsSessions, received, lastMessage,
              presented>>
statVars == <<timers, due, fetches, now>>
logVars == <<containerLogs, attaching, logStreams, produced, missed, flushedWith>>
deployVars == <<variant, file, volumes, containers, pc, body, pending, states,
                containerForState, container, resp, trace, commits, attempted,
                lastDoc, lvars>>

\* The seconds the model lets pass, and the chunks the container writes.
MaxTicks == 2
MaxLines == 1

\* The container of the session URLs.
SessionContainer == "c1"

\* The timers of all connections that are set.
ActiveTimers ==
    UNION {{<<c, k>> : k \in {j \in DOMAIN timers[c] : timers[c][j].active}} :
             c \in Conns}

\* One second passes: the callback of every interval that is set falls due.
second ==
    /\ now < MaxTicks
    /\ ActiveTimers # {}
    /\ now' = now + 1
    /\ due' = due \cup ActiveTimers
    /\ UNCHANGED <<timers, fetches, wsOut, runtimeCalls>>
    /\ UNCHANGED <<connVars, logVars, dvars>>

\* The interval fires: fetchStats up to its await of container.stats.
fetchStats(c, k) ==
    /\ <<c, k>> \in due
    /\ due' = due \ {<<c, k>>}
    /\ fetches' = fetches \cup
          {[conn |-> c, sess |-> k, id |-> now, pc |-> "stats", exceeded |-> FALSE]}
    /\ runtimeCalls' = runtimeCalls \cup {[conn |-> c, op |-> "stats"]}
    /\ UNCHANGED <<timers, now, wsOut>>
    /\ UNCHANGED <<connVars, logVars, dvars>>

\* The frame of a sample.
SampleFrame(exceeded) == IF exceeded THEN "sample storageExceeded" ELSE "sample"

\* The catch block of fetchStats: an error frame, on an open socket only.
FetchFailed(f) ==
    /\ fetches' = fetches \ {f}
    /\ wsOut' = [wsOut EXCEPT ![f.conn] = Send(f.conn, @, "Failed to fetch stats")]

\* ws.send(JSON.stringify(stats)) ends the fetch; `exceededSent` records a
\* sample that reached the client with storageExceeded.
SendSample(f, ts, exceeded) ==
    /\ fetches' = fetches \ {f}
    /\ wsOut' = [wsOut EXCEPT ![f.conn] = Send(f.conn, @, SampleFrame(exceeded))]
    /\ timers' = [ts EXCEPT ![f.conn][f.sess].exceededSent =
                     @ \/ (exceeded /\ readyState[f.conn] = "OPEN")]

\* The callback of container.stats: an error rejects into the catch block.
fetchStats_stats(f) ==
    /\ f \in fetches
    /\ f.pc = "stats"
    /\ \E ok \in BOOLEAN :
         IF ok
         THEN /\ fetches' = (fetches \ {f}) \cup {[f EXCEPT !.pc = "volume"]}
              /\ UNCHANGED wsOut
         ELSE FetchFailed(f)
    /\ UNCHANGED <<timers, due, now, runtimeCalls>>
    /\ UNCHANGED <<connVars, logVars, dvars>>

\* getVolumeSize(volumeId): the size of the volume in MiB.
getVolumeSize == {0, 1}

\* A test that forgets that a limit of 0 sets no limit.
StorageExceededAnyLimit(diskLimit, volumeSizeMiB) == volumeSizeMiB >= diskLimit

\* const storageExceeded = diskLimit > 0 && volumeSizeMiB >= diskLimit
StorageExceeded(diskLimit, volumeSizeMiB) ==
    diskLimit > 0 /\ volumeSizeMiB >= diskLimit

\* getVolumeSize resolves: storageExceeded is computed, and either
\* container.inspect is awaited (storage exceeded and not yet auto-stopped)
\* or the sample is sent.
fetchStats_volume(f) ==
    /\ f \in fetches
    /\ f.pc = "volume"
    /\ \E size \in getVolumeSize :
         LET exceeded == StorageExceeded(timers[f.conn][f.sess].diskLimit, size)
         IN  IF exceeded /\ ~timers[f.conn][f.sess].hasAutoStopped
             THEN /\ fetches' = (fetches \ {f}) \cup
                        {[f EXCEPT !.pc = "inspect", !.exceeded = exceeded]}
                  /\ runtimeCalls' = runtimeCalls \cup
                        {[conn |-> f.conn, op |-> "inspect"]}
                  /\ UNCHANGED <<wsOut, timers>>
             ELSE /\ SendSample(f, timers, exceeded)
                  /\ UNCHANGED runtimeCalls
    /\ UNCHANGED <<due, now>>
    /\ UNCHANGED <<connVars, logVars, dvars>>

\* container.inspect resolves: a running container is stopped
\* (container.stop is awaited), for another one the sample is sent.
fetchStats_inspect(f) ==
    /\ f \in fetches
    /\ f.pc = "inspect"
    /\ \E ok \in BOOLEAN :
         IF ~ok
         THEN /\ FetchFailed(f)
              /\ UNCHANGED <<timers, runtimeCalls>>
         ELSE IF SessionContainer \in running
         THEN /\ fetches' = (fetches \ {f}) \cup {[f EXCEPT !.pc = "stop"]}
              /\ timers' = [timers EXCEPT ![f.conn][f.sess].stops = @ + 1]
              /\ runtimeCalls' = runtimeCalls \cup {[conn |-> f.conn, op |-> "stop"]}
              /\ UNCHANGED wsOut
         ELSE /\ SendSample(f, timers, f.exceeded)
              /\ UNCHANGED runtimeCalls
    /\ UNCHANGED <<due, now>>
    /\ UNCHANGED <<connVars, logVars, dvars>>

\* container.stop resolves (hasAutoStopped is latched and the sample sent) or
\* rejects.
fetchStats_stop(f) ==
    /\ f \in fetches
    /\ f.pc = "stop"
    /\ \E ok \in BOOLEAN :
         IF ok
         THEN /\ running' = running \ {SessionContainer}
              /\ SendSample(f, [timers EXCEPT ![f.conn][f.sess].hasAutoStopped = TRUE],
                            f.exceeded)
         ELSE /\ FetchFailed(f)
              /\ UNCHANGED <<running, timers>>
    /\ UNCHANGED <<due, now, runtimeCalls>>
    /\ UNCHANGED <<connVars, logVars, deployVars>>

----------------------------------------------------------------------------
(* The exec session: streamDockerLogs after its await of container.logs.   *)

\* container.logs resolves: the "data", "error" and "close" listeners are
\* attached; or it rejects (or yields no stream): "Failed to attach logs".
streamDockerLogs(c) ==
    /\ attaching[c] > 0
    /\ attaching' = [attaching EXCEPT ![c] = @ - 1]
    /\ \E ok \in BOOLEAN :
         IF ok
         THEN /\ logStreams' = [logStreams EXCEPT ![c] = Append(@, <<>>)]
              /\ UNCHANGED wsOut
         ELSE /\ wsOut' = [wsOut EXCEPT ![c] = Send(c, @, "Failed to attach logs")]
              /\ UNCHANGED logStreams
    /\ UNCHANGED <<containerLogs, produced, missed, flushedWith, runtimeCalls>>
    /\ UNCHANGED <<connVars, statVars, dvars>>

\* An exec session is attached: it was set up on a connection not yet closed.
ExecAttached == \E c \in Conns : execSessions[c] > 0 /\ readyState[c] # "CLOSED"

\* An exec session was attached at some time.
EverAttached == \E c \in Conns : execSessions[c] > 0

\* The container writes a chunk: it goes down every follow-mode stream that
\* is attached.  `missed` keeps the chunks written after an exec session had
\* been attached and while none is.
produce ==
    /\ produced < MaxLines
    /\ produced' = produced + 1
    /\ logStreams' = [c \in Conns |->
          [k \in DOMAIN logStreams[c] |->
              Append(logStreams[c][k], Lines[produced + 1])]]
    /\ missed' = IF EverAttached /\ ~ExecAttached
                 THEN missed \cup {Lines[produced + 1]} ELSE missed
    /\ UNCHANGED <<containerLogs, attaching, flushedWith, wsOut, runtimeCalls>>
    /\ UNCHANGED <<connVars, statVars, dvars>>

\* logStream.on("data"): the chunk is pushed on the buffer, and sent when the
\* socket is open and its outbound buffer is empty.
logStream_data(c, k) ==
    /\ k \in DOMAIN logStreams[c]
    /\ logStreams[c][k] # <<>>
    /\ logStreams' = [logStreams EXCEPT ![c][k] = Tail(@)]
    /\ containerLogs' = [containerLogs EXCEPT ![SessionContainer] =
                             Append(@, Head(logStreams[c][k]))]
    /\ \E bufferedAmountZero \in BOOLEAN :
         wsOut' = [wsOut EXCEPT ![c] =
                      IF bufferedAmountZero
                      THEN Send(c, @, formatLogMessage(Head(logStreams[c][k])))
                      ELSE @]
    /\ UNCHANGED <<attaching, produced, missed, flushedWith, runtimeCalls>>
    /\ UNCHANGED <<connVars, statVars, dvars>>

\* A stats client, which may authenticate more than once.
NextStats ==
    \/ connection("w1", StatsUrl)
    \/ message("w1", AuthFrame(ConfigKey))
    \/ handleWebSocketConnection("w1")
    \/ close("w1")
    \/ second
    \/ \E k \in DOMAIN timers["w1"] : fetchStats("w1", k)
    \/ \E f \in fetches : fetchStats_stats(f)
    \/ \E f \in fetches : fetchStats_volume(f)
    \/ \E f \in fetches : fetchStats_inspect(f)
    \/ \E f \in fetches : fetchStats_stop(f)

\* Two exec clients of one container, and the container's output.
NextLogs ==
    \/ \E c \in Conns : connection(c, ExecUrl)
    \/ \E c \in Conns : message(c, AuthFrame(ConfigKey))
    \/ \E c \in Conns : handleWebSocketConnection(c)
    \/ \E c \in Conns : close(c)
    \/ \E c \in Conns : streamDockerLogs(c)
    \/ produce
    \/ \E c \in Conns : \E k \in DOMAIN logStreams[c] : logStream_data(c, k)

\* The record a finished deployment of the instance left in states.json.
DeployedRecord(limit) ==
    [state |-> "READY", containerId |-> SessionContainer, diskLimit |-> limit]

\* Sessions start after a deployment: the container of the URLs exists and
\* runs, and states.json is missing, truncated, without a record of the
\* volume, or holds its record with a disk limit of 0 or 1 MiB.
InitSess ==
    /\ variant = "fixed"
    /\ file \in {FileAbsent, FileTorn, FileJson(EmptyDoc)}
                \cup {FileJson([EmptyDoc EXCEPT !["i1"] = DeployedRecord(limit)]) :
                         limit \in {0, 1}}
    /\ volumes = {"i1"}
    /\ containers = {[id |-> SessionContainer, name |-> "i1"]}
    /\ running = {SessionContainer}
    /\ pc = [r \in Reqs |-> "idle"]
    /\ body = [r \in Reqs |-> NoBody]
    /\ pending = [r \in Reqs |-> NoRecord]
    /\ states = [r \in Reqs |-> EmptyDoc]
    /\ containerForState = [r \in Reqs |-> Null]
    /\ container = [r \in Reqs |-> Null]
    /\ resp = [r \in Reqs |-> <<>>]
    /\ trace = [r \in Reqs |-> <<>>]
    /\ commits = [r \in Reqs |-> <<>>]
    /\ attempted = [r \in Reqs |-> <<>>]
    /\ lastDoc = EmptyDoc
    /\ attempt = 0
    /\ dlpc = "idle"
    /\ requests = <<>>
    /\ waits = <<>>
    /\ onDisk = FALSE
    /\ uptimeInSeconds = 0
    /\ responseStats = Null
    /\ stream = <<>>
    /\ emitted = <<>>
    /\ allOutput = <<>>
    /\ finished = <<>>
    /\ apiVersion = Null
    /\ kpc = [k \in Calls |-> [at |-> "idle", path |-> Null]]
    /\ version = [k \in Calls |-> Null]
    /\ wire = <<>>
    /\ readyState = [c \in Conns |-> "NONE"]
    /\ url = [c \in Conns |-> <<>>]
    /\ isAuthenticated = [c \in Conns |-> FALSE]
    /\ closeCode = [c \in Conns |-> 0]
    /\ closeReason = [c \in Conns |-> ""]
    /\ wsOut = [c \in Conns |-> <<>>]
    /\ inspecting = [c \in Conns |-> 0]
    /\ execSessions = [c \in Conns |-> 0]
    /\ statsSessions = [c \in Conns |-> 0]
    /\ runtimeCalls = {}
    /\ received = [c \in Conns |-> 0]
    /\ lastMessage = [c \in Conns |-> NoMessage]
    /\ presented = [c \in Conns |-> FALSE]
    /\ timers = [c \in Conns |-> <<>>]
    /\ due = {}
    /\ fetches = {}
    /\ now = 0
    /\ containerLogs = NoContainerLogs
    /\ attaching = [c \in Conns |-> 0]
    /\ logStreams = [c \in Conns |-> <<>>]
    /\ produced = 0
    /\ missed = {}
    /\ flushedWith = [c \in Conns |-> {}]

SpecStats == InitSess /\ [][NextStats]_vars

SpecLogs == InitSess /\ [][NextLogs]_vars

\* The URLs clients connect with: the two session kinds, a stats URL without
\* volume id, an unknown kind, and URLs without container id.
Urls ==
    {ExecUrl, StatsUrl, <<"", "stats", "c1">>, <<"", "shell", "c1">>,
     <<"", "exec", "">>, <<"", "exec">>, <<"", "">>}

Frames ==
    {InvalidJson, AuthFrame(ConfigKey), AuthFrame(WrongKey), AuthFrame(Undefined),
     EventFrame("auth"), EventFrame("cmd"), EventFrame("power:start"),
     EventFrame("power:stop"), EventFrame("power:restart"), EventFrame("ping")}

\* A second client, which presents the secret on an exec URL and starts the
\* container.
PeerFrames == {AuthFrame(ConfigKey), EventFrame("power:start")}

NextWs ==
    \/ \E u \in Urls : connection("w1", u)
    \/ \E m \in Frames : message("w1", m)
    \/ connection("w2", ExecUrl)
    \/ \E m \in PeerFrames : message("w2", m)
    \/ \E c \in Conns : handleWebSocketConnection(c)
    \/ \E c \in Conns : close(c)

InitWs == Init /\ variant = "fixed"

SpecWs == InitWs /\ [][NextWs]_vars

-----------------------------------------------------------------------------
(* GET /stats: the uptime of the process, formatted.                       *)

\* The largest process.uptime() the model reads, in seconds (2 days 2 hours).
MaxUptime == 180000

\* parts.join(sep)
RECURSIVE join(_, _)
join(parts, sep) ==
    IF Len(parts) = 0 THEN ""
    ELSE IF Len(parts) = 1 THEN parts[1]
    ELSE parts[1] \o sep \o join(Tail(parts), sep)

\* As formatUptime, with the hours not reduced modulo 24.
formatUptimeHoursOfUptime(uptime) ==
    LET minutes == (uptime \div 60) % 60
        hours == uptime \div 3600
        days == uptime \div 86400
        afterDays == IF days > 0 THEN <<ToString(days) \o "d">> ELSE <<>>
        afterHours == IF hours > 0
                      THEN Append(afterDays, ToString(hours) \o "h")
                      ELSE afterDays
        parts == IF minutes > 0
                 THEN Append(afterHours, ToString(minutes) \o "m")
                 ELSE afterHours
    IN  IF Len(parts) = 0 THEN "0m" ELSE join(parts, " ")

\* formatUptime(uptime), for a whole number of seconds: Math.floor((uptime /
\* 60) % 60) is then (uptime \div 60) % 60. Each component is pushed to
\* `parts` if it is greater than 0.
formatUptime(uptime) ==
    LET minutes == (uptime \div 60) % 60
        hours == (uptime \div 3600) % 24
        days == uptime \div 86400
        afterDays == IF days > 0 THEN <<ToString(days) \o "d">> ELSE <<>>
        afterHours == IF hours > 0
                      THEN Append(afterDays, ToString(hours) \o "h")
                      ELSE afterDays
        parts == IF minutes > 0
                 THEN Append(afterHours, ToString(minutes) \o "m")
                 ELSE afterHours
    IN  IF Len(parts) = 0 THEN "0m" ELSE join(parts, " ")

\* app.get("/stats"), for one request: the handler reads process.uptime() and
\* answers with its formatted value.
stats ==
    /\ responseStats = Null
    /\ \E uptime \in 0..MaxUptime :
         /\ uptimeInSeconds' = uptime
         /\ responseStats' = formatUptime(uptime)
    /\ UNCHANGED <<stream, emitted, allOutput, finished, apiVersion, kpc,
                   version, wire>>
    /\ UNCHANGED <<attempt, dlpc, requests, waits, onDisk>>
    /\ UNCHANGED <<variant, file, volumes, containers, running, pc, body, pending,
                   states, containerForState, container, resp, trace, commits,
                   attempted, lastDoc>>
    /\ UNCHANGED wvars

NextUptime == stats

SpecUptime == Init /\ [][NextUptime]_vars

-----------------------------------------------------------------------------
(* docker.modem.followProgress: the drain of a pull progress stream.       *)

\* The lines a stream carries, in all its chunks together.
MaxStreamLines == 3

\* What split("\n") yields of a chunk: a progress record, an error record, a
\* line of spaces, the empty line after a final newline, and, where a chunk
\* ends inside a record, the beginning of the record in one chunk and the
\* rest of it in the next.
ProgressLine == "{\"status\":\"Pulling fs layer\"}"
ErrorLine == "{\"error\":\"pull access denied\"}"
MalformedLine == "{\"status\":\"Pull"
ProgressRest == "ing fs layer\"}"
ErrorBegin == "{\"error\":\"pull acc"
ErrorRest == "ess denied\"}"
BlankLine == "  "
EmptyLine == ""
PullLines == {ProgressLine, ErrorLine, MalformedLine, ProgressRest, ErrorBegin,
              ErrorRest, BlankLine, EmptyLine}

\* Lines of spaces only, and a text with spaces before and after it.
RECURSIVE Pad(_)
Pad(n) == IF n = 0 THEN "" ELSE BlankLine \o Pad(n - 1)
Blanks == {Pad(n) : n \in 0..MaxStreamLines}
Padded(text) == {before \o text \o after : before \in Blanks, after \in Blanks}

\* l.trim()
trim(l) == IF l \in Blanks THEN "" ELSE l

\* JSON.parse(line): the record of the line, which spaces may surround, or a
\* SyntaxError.
SyntaxError == [threw |-> "SyntaxError"]
JSONparse(line) ==
    CASE line \in Padded(ProgressLine) -> [status |-> "Pulling fs layer"]
      [] line \in Padded(ErrorLine) -> [error |-> "pull access denied"]
      [] OTHER -> SyntaxError

\* A chunk is modelled as chunk.toString().split("\n"), a non-empty sequence
\* of lines; a stream emits "data" events and then either "end" or "error".
RECURSIVE DataEvents(_)
DataEvents(n) ==
    {<<>>} \cup
    UNION {{<<[type |-> "data", chunk |-> c]>> \o rest :
               c \in [1..k -> PullLines], rest \in DataEvents(n - k)} :
           k \in 1..n}
\* An Error is modelled by its message.
StreamError == "socket hang up"
Terminals == {[type |-> "end", chunk |-> <<>>], [type |-> "error", chunk |-> <<>>]}
Streams == {d \o <<t>> : d \in DataEvents(MaxStreamLines), t \in Terminals}

\* stream.on("data"): the lines of the chunk that are not blank are parsed,
\* each in its own try block, and the records pushed on allOutput.
RECURSIVE OnData(_, _)
OnData(output, lines) ==
    IF lines = <<>> THEN output
    ELSE IF trim(Head(lines)) = "" THEN OnData(output, Tail(lines))
    ELSE IF JSONparse(Head(lines)) = SyntaxError THEN OnData(output, Tail(lines))
    ELSE OnData(Append(output, JSONparse(Head(lines))), Tail(lines))

\* An "end" listener that looks for an error in every record.
LastErrorOfAnyRecord(output) ==
    IF \E k \in DOMAIN output : "error" \in DOMAIN output[k]
    THEN output[CHOOSE k \in DOMAIN output : "error" \in DOMAIN output[k]].error
    ELSE Null

\* last && last.error
LastError(output) ==
    IF output = <<>> THEN Null
    ELSE IF "error" \in DOMAIN output[Len(output)]
    THEN output[Len(output)].error
    ELSE Null

fvarsRest == <<uptimeInSeconds, responseStats, apiVersion, kpc, version, wire>>

\* followProgress(stream, onFinished): the listeners are attached to the
\* stream that docker.pull resolved with.
followProgress(s) ==
    /\ stream = <<>> /\ emitted = <<>>
    /\ stream' = s
    /\ allOutput' = <<>>
    /\ UNCHANGED <<emitted, finished>>
    /\ UNCHANGED fvarsRest
    /\ UNCHANGED <<attempt, dlpc, requests, waits, onDisk>>
    /\ UNCHANGED <<variant, file, volumes, containers, running, pc, body, pending,
                   states, containerForState, container, resp, trace, commits,
                   attempted, lastDoc>>
    /\ UNCHANGED wvars

\* The "data" listener.
stream_data ==
    /\ stream # <<>> /\ Head(stream).type = "data"
    /\ allOutput' = OnData(allOutput, Head(stream).chunk)
    /\ emitted' = Append(emitted, Head(stream))
    /\ stream' = Tail(stream)
    /\ UNCHANGED finished
    /\ UNCHANGED fvarsRest
    /\ UNCHANGED <<attempt, dlpc, requests, waits, onDisk>>
    /\ UNCHANGED <<variant, file, volumes, containers, running, pc, body, pending,
                   states, containerForState, container, resp, trace, commits,
                   attempted, lastDoc>>
    /\ UNCHANGED wvars

\* The "end" listener: onFinished(new Error(last.error), allOutput) when the
\* last record has an error, else onFinished(null, allOutput).
stream_end ==
    /\ stream # <<>> /\ Head(stream).type = "end"
    /\ finished' = Append(finished,
          [err |-> LastError(allOutput), output |-> allOutput])
    /\ emitted' = Append(emitted, Head(stream))
    /\ stream' = Tail(stream)
    /\ UNCHANGED allOutput
    /\ UNCHANGED fvarsRest
    /\ UNCHANGED <<attempt, dlpc, requests, waits, onDisk>>
    /\ UNCHANGED <<variant, file, volumes, containers, running, pc, body, pending,
                   states, containerForState, container, resp, trace, commits,
                   attempted, lastDoc>>
    /\ UNCHANGED wvars

\* The "error" listener: onFinished(err, allOutput).
stream_error ==
    /\ stream # <<>> /\ Head(stream).type = "error"
    /\ finished' = Append(finished, [err |-> StreamError, output |-> allOutput])
    /\ emitted' = Append(emitted, Head(stream))
    /\ stream' = Tail(stream)
    /\ UNCHANGED allOutput
    /\ UNCHANGED fvarsRest
    /\ UNCHANGED <<attempt, dlpc, requests, waits, onDisk>>
    /\ UNCHANGED <<variant, file, volumes, containers, running, pc, body, pending,
                   states, containerForState, container, resp, trace, commits,
                   attempted, lastDoc>>
    /\ UNCHANGED wvars

NextProgress ==
    \/ \E s \in Streams : followProgress(s)
    \/ stream_data
    \/ stream_end
    \/ stream_error

\* The drain of one pull stream.
SpecProgress == Init /\ [][NextProgress]_vars

-----------------------------------------------------------------------------
(* The Docker client: version negotiation and versioned requests.          *)

\* The paths the model requests, and what the probe can come to: the JSON of
\* the runtime with its ApiVersion, a 2xx answer with no body, a body that
\* does not parse, another status, or a socket error.
RequestPaths == {"/info", "/networks"}
FallbackVersion == "1.44"
ProbeResults ==
    {[kind |-> "json", ApiVersion |-> v] : v \in {"1.41", "1.47"}}
    \cup {[kind |-> k, ApiVersion |-> Null] :
             k \in {"empty", "unparseable", "status", "error"}}

\* A probe without a fallback.
VersionOfNoFallback(result) ==
    IF result.kind = "json" THEN result.ApiVersion ELSE Null

\* try { version = await _rawRequest("GET", "/version"); this.apiVersion =
\* version.ApiVersion } catch { this.apiVersion = "1.44" }: _rawRequest
\* rejects but on a 2xx answer that parses, and resolves with null on an
\* empty body, of which .ApiVersion throws.
VersionOf(result) ==
    IF result.kind = "json" THEN result.ApiVersion ELSE FallbackVersion

kvarsRest == <<uptimeInSeconds, responseStats, stream, emitted, allOutput, finished>>

\* _request(method, path) up to the await in _getApiVersion: the cached
\* version is returned, or GET /version is sent without a version prefix.
_request(k, path) ==
    /\ kpc[k].at = "idle"
    /\ IF apiVersion # Null
       THEN /\ version' = [version EXCEPT ![k] = apiVersion]
            /\ kpc' = [kpc EXCEPT ![k] = [at |-> "send", path |-> path]]
            /\ UNCHANGED wire
       ELSE /\ wire' = Append(wire, [call |-> k, what |-> "probe", path |-> "/version"])
            /\ kpc' = [kpc EXCEPT ![k] = [at |-> "probe", path |-> path]]
            /\ UNCHANGED version
    /\ UNCHANGED apiVersion
    /\ UNCHANGED kvarsRest
    /\ UNCHANGED <<attempt, dlpc, requests, waits, onDisk>>
    /\ UNCHANGED <<variant, file, volumes, containers, running, pc, body, pending,
                   states, containerForState, container, resp, trace, commits,
                   attempted, lastDoc>>
    /\ UNCHANGED wvars

\* The probe settles: this.apiVersion is set and returned.
_getApiVersion(k, result) ==
    /\ kpc[k].at = "probe"
    /\ wire' = Append(wire, [call |-> k, what |-> "answer", path |-> VersionOf(result)])
    /\ apiVersion' = VersionOf(result)
    /\ version' = [version EXCEPT ![k] = VersionOf(result)]
    /\ kpc' = [kpc EXCEPT ![k].at = "send"]
    /\ UNCHANGED kvarsRest
    /\ UNCHANGED <<attempt, dlpc, requests, waits, onDisk>>
    /\ UNCHANGED <<variant, file, volumes, containers, running, pc, body, pending,
                   states, containerForState, container, resp, trace, commits,
                   attempted, lastDoc>>
    /\ UNCHANGED wvars

\* http.request({path: `/v${version}${path}`, ...}) and req.end().
_request_send(k) ==
    /\ kpc[k].at = "send"
    /\ wire' = Append(wire, [call |-> k, what |-> "request",
                             path |-> "/v" \o version[k] \o kpc[k].path])
    /\ kpc' = [kpc EXCEPT ![k].at = "sent"]
    /\ UNCHANGED <<apiVersion, version>>
    /\ UNCHANGED kvarsRest
    /\ UNCHANGED <<attempt, dlpc, requests, waits, onDisk>>
    /\ UNCHANGED <<variant, file, volumes, containers, running, pc, body, pending,
                   states, containerForState, container, resp, trace, commits,
                   attempted, lastDoc>>
    /\ UNCHANGED wvars

NextDocker ==
    \/ \E k \in Calls, path \in RequestPaths : _request(k, path)
    \/ \E k \in Calls, result \in ProbeResults : _getApiVersion(k, result)
    \/ \E k \in Calls : _request_send(k)

\* Two calls of one client, one after the other or at once.
SpecDocker == Init /\ [][NextDocker]_vars

----------------------------------------------------------------------------
(* The claims.                                                             *)

Last(s) == s[Len(s)]
Finished(r) == pc[r] \in {"done", "rejected"}
Sent(r, status) == \E k \in 1..Len(resp[r]) : resp[r][k].status = status
Did(r, e) == \E k \in 1..Len(trace[r]) : trace[r][k] = e

\* C1: state-store updates are serialized: once all the updateState calls of
\* deployments of distinct instances have completed, the document holds, for
\* every instance, the record its last updateState wrote.
C1_NoLostUpdate ==
    ((\A r \in Reqs : Finished(r))
        /\ \A r1, r2 \in Reqs : r1 # r2 => body[r1].Id # body[r2].Id)
    => \A r \in Reqs :
         commits[r] # <<>> =>
            file.kind = "json" /\ file.doc[body[r].Id] = Last(commits[r])

\* C2, as stated: when createContainer has just sent the 202 for I, the
\* document holds a record for I whose containerId is not null.
C2_RecordHasIdAt202 ==
    \A r \in Reqs :
        (trace[r] # <<>> /\ Last(trace[r]) = "202") =>
            /\ file.kind = "json"
            /\ file.doc[body[r].Id].state # "absent"
            /\ file.doc[body[r].Id].containerId # Null

\* C2, amended: when createContainer sends the 202 for I, the response carries
\* the non-null id of the container just created, while the only record this
\* deployment has committed is INSTALLING with containerId null; the id is
\* committed to the document only afterwards.
C2_IdInResponseNotInRecord ==
    \A r \in Reqs :
        Did(r, "202") =>
            /\ resp[r][1].status = 202
            /\ resp[r][1].containerId # Null
            /\ resp[r][1].containerId = container[r]
            /\ [id |-> container[r], name |-> body[r].Id] \in containers
            /\ commits[r] # <<>>
            /\ commits[r][1] = Record("INSTALLING", Null, body[r])
            /\ (Last(trace[r]) = "202" => Len(commits[r]) = 1)

C2_Witness ==
    \E r \in Reqs : trace[r] # <<>> /\ Last(trace[r]) = "202"

\* A create that failed after the validation: it answered 500, or it had
\* answered 202 and ended without the READY commit.
FailedCreate(r) ==
    /\ Finished(r)
    /\ \/ Sent(r, 500)
       \/ Sent(r, 202) /\ ~Did(r, "READY")

\* C3: at the moment the handler of a failed create for I finishes, the record
\* of I has state FAILED.  (The 400 of the validation, which writes no record
\* at all, is left aside: the statement fails without it.)
C3_FailedCreateRecordsFailed ==
    [][\A r \in Reqs :
          (~Finished(r) /\ FailedCreate(r)') =>
              (file.kind = "json" /\ file.doc[body[r].Id].state = "FAILED")'
      ]_vars

\* C4: when a create for I none of whose stages failed completes, the record
\* of I is READY with the container id of the 202 response, which is not
\* null, and the container was started before the READY commit.
C4_SuccessCommitsReady ==
    [][\A r \in Reqs :
          (~Finished(r) /\ Finished(r)' /\ Did(r, "READY")') =>
              /\ file'.kind = "json"
              /\ resp'[r] = <<[status |-> 202, containerId |-> container'[r]]>>
              /\ container'[r] # Null
              /\ file'.doc[body'[r].Id] =
                    [state |-> "READY", containerId |-> resp'[r][1].containerId,
                     diskLimit |-> body'[r].Disk]
              /\ container'[r] \in running'
              /\ \E k \in 1..Len(trace'[r]) - 1 :
                    trace'[r][k] = "start" /\ trace'[r][k + 1] = "READY"
      ]_vars

C4_Witness ==
    \E r \in Reqs : pc[r] = "done" /\ trace[r] # <<>> /\ Last(trace[r]) = "READY"

\* C5: a deployment writes no READY or FAILED record unless it committed an
\* INSTALLING record before.
C5_InstallingFirst ==
    \A r \in Reqs :
        \A k \in 1..Len(commits[r]) :
            commits[r][k].state \in {"READY", "FAILED"} =>
                \E j \in 1..(k - 1) : commits[r][j].state = "INSTALLING"

\* What a HostPort string says when read as a decimal integer, sign included.
IsInteger(s) ==
    LET d == IF s # <<>> /\ s[1] = "-" THEN Tail(s) ELSE s
    IN  d # <<>> /\ \A i \in 1..Len(d) : IsDigit(d[i])

RECURSIVE Magnitude(_)
Magnitude(d) ==
    IF d = <<>> THEN 0
    ELSE 10 * Magnitude(SubSeq(d, 1, Len(d) - 1)) + DigitVal(d[Len(d)])

IntegerValue(s) ==
    IF s[1] = "-" THEN 0 - Magnitude(Tail(s)) ELSE Magnitude(s)

OutsidePortRange(s) == IsInteger(s) /\ IntegerValue(s) \notin 1..65535
InsidePortRange(s) == IsInteger(s) /\ IntegerValue(s) \in 1..65535

\* C6: routes/Deployment.js answers a create that has a port binding whose
\* HostPort is a number outside 1..65535 with 400 and nothing else: no volume,
\* no state record, no runtime call.  Bindings that are all inside 1..65535
\* are not refused.
C6_BadPortRefused ==
    \A r \in Reqs :
        (variant = "fixed" /\ pc[r] # "idle") =>
            /\ (\E hp \in AllHostPorts(body[r].PortBindings) : OutsidePortRange(hp))
                => /\ pc[r] = "done"
                   /\ resp[r] = <<[status |-> 400, containerId |-> Null]>>
                   /\ trace[r] = <<"400">>
                   /\ commits[r] = <<>>
                   /\ file = FileAbsent
                   /\ volumes = {}
                   /\ containers = {}
                   /\ running = {}
            /\ (\A hp \in AllHostPorts(body[r].PortBindings) : InsidePortRange(hp))
                => ~Sent(r, 400)

C6_Witness ==
    \E r \in Reqs :
        /\ variant = "fixed"
        /\ body[r].PortBindings = <<<<<<"1">>, <<"6", "5", "5", "3", "6">>>>>>
        /\ resp[r] = <<[status |-> 400, containerId |-> Null]>>

\* A stage failed after the INSTALLING commit of the request.
FailedAfterInstalling(r) ==
    /\ Finished(r)
    /\ commits[r] # <<>>
    /\ commits[r][1].state = "INSTALLING"
    /\ ~Did(r, "READY")

\* C7: when a stage fails after the INSTALLING commit, a FAILED record is
\* committed that carries the container id when the container was created and
\* null otherwise; a 500 is sent exactly when no 202 had been sent, and
\* nothing is sent after a 202.
C7_FailureCommitsFailed ==
    \A r \in Reqs :
        FailedAfterInstalling(r) =>
            /\ Last(commits[r]) = Record("FAILED", container[r], body[r])
            /\ Sent(r, 500) <=> ~Sent(r, 202)
            /\ Len(resp[r]) = 1

\* Connection c has just handled frame m.
Handled(c) == received'[c] = received[c] + 1

\* The step starts no session on c and touches the runtime for no connection.
NothingStarted(c) ==
    /\ inspecting'[c] = inspecting[c]
    /\ execSessions'[c] = execSessions[c]
    /\ statsSessions'[c] = statsSessions[c]
    /\ runtimeCalls' = runtimeCalls

\* C8: no runtime operation is invoked for a connection, and no session of it
\* started, before it has sent an auth frame carrying the configured secret;
\* a JSON frame that is no auth frame, on an unauthenticated connection,
\* closes the channel with 1008 and touches nothing.
C8_NoRuntimeBeforeAuth ==
    [][\A c \in Conns :
          /\ \A x \in runtimeCalls' \ runtimeCalls : x.conn = c => presented'[c]
          /\ (execSessions'[c] # execSessions[c]
                \/ statsSessions'[c] # statsSessions[c]) => presented'[c]
          /\ (/\ Handled(c)
              /\ lastMessage'[c].json
              /\ ~(lastMessage'[c].event = "auth" /\ lastMessage'[c].hasArgs)
              /\ ~isAuthenticated[c])
             => /\ readyState'[c] = "CLOSING"
                /\ closeCode'[c] = 1008
                /\ ~isAuthenticated'[c]
                /\ NothingStarted(c)
      ]_vars

C8_Witness ==
    /\ lastMessage["w1"] = EventFrame("power:start")
    /\ ~isAuthenticated["w1"]
    /\ closeCode["w1"] = 1008
    /\ closeReason["w1"] = "Unauthorized access"
    /\ [conn |-> "w2", op |-> "start"] \in runtimeCalls

\* C9: an auth frame whose secret is not the configured key does not
\* authenticate the connection and starts nothing; on an open channel it is
\* answered "Authentication failed" and the channel is closed with 1008.
C9_WrongSecretRefused ==
    [][\A c \in Conns :
          (/\ Handled(c)
           /\ lastMessage'[c].json
           /\ lastMessage'[c].event = "auth"
           /\ lastMessage'[c].hasArgs
           /\ lastMessage'[c].password # ConfigKey)
          => /\ isAuthenticated'[c] = isAuthenticated[c]
             /\ NothingStarted(c)
             /\ readyState'[c] = "CLOSING"
             /\ readyState[c] = "OPEN" =>
                   /\ wsOut'[c] = Append(wsOut[c], "Authentication failed")
                   /\ closeCode'[c] = 1008
                   /\ closeReason'[c] = "Authentication failed"
      ]_vars

C9_Witness ==
    \E c \in Conns :
        /\ lastMessage[c] = AuthFrame(WrongKey)
        /\ wsOut[c] = <<"Authentication failed">>
        /\ closeCode[c] = 1008
        /\ ~isAuthenticated[c]

\* C10: an auth frame with the configured secret on a connection whose URL
\* has no container id leaves the connection unauthenticated and starts
\* nothing; on an open channel it closes the channel with 1008 and the reason
\* "Container ID not specified".
C10_NoContainerIdRefused ==
    [][\A c \in Conns :
          (/\ Handled(c)
           /\ lastMessage'[c] = AuthFrame(ConfigKey)
           /\ Falsy(UrlParts(url[c], 2)))
          => /\ ~isAuthenticated'[c]
             /\ NothingStarted(c)
             /\ readyState'[c] = "CLOSING"
             /\ readyState[c] = "OPEN" =>
                   /\ closeCode'[c] = 1008
                   /\ closeReason'[c] = "Container ID not specified"
      ]_vars

C10_Witness ==
    \E c \in Conns :
        /\ lastMessage[c] = AuthFrame(ConfigKey)
        /\ url[c] = <<"", "exec", "">>
        /\ closeCode[c] = 1008
        /\ closeReason[c] = "Container ID not specified"
        /\ ~isAuthenticated[c]

\* The inspect callback of handleWebSocketConnection has just run for c.
InspectReturned(c) == inspecting'[c] = inspecting[c] - 1

\* The URL of c names neither an exec nor a stats session.
UnknownKind(c) ==
    ~StartsWithKind(url[c], "exec") /\ ~StartsWithKind(url[c], "stats")

\* C11: after a successful auth on an open connection whose URL kind is
\* neither exec nor stats, the inspect callback closes the channel with 1002
\* and starts no session, whether the inspect succeeded or failed.
C11_UnknownKindCloses1002 ==
    [][\A c \in Conns :
          (InspectReturned(c) /\ UnknownKind(c) /\ readyState[c] = "OPEN")
          => /\ readyState'[c] = "CLOSING"
             /\ closeCode'[c] = 1002
             /\ execSessions'[c] = execSessions[c]
             /\ statsSessions'[c] = statsSessions[c]
      ]_vars

\* The sample frames connection c was sent.
Samples(c) ==
    Cardinality({k \in DOMAIN wsOut[c] :
                    wsOut[c][k] \in {SampleFrame(TRUE), SampleFrame(FALSE)}})

\* C12: a connection with a stats session is sent at most one sample per
\* second elapsed (one per 1-second tick), whatever frames the client sends.
C12_OneSamplePerTick ==
    \A c \in Conns : Samples(c) <= now

\* C13: within one stats session the quota loop issues container.stop at most
\* once, also when fetches of successive ticks overlap.
C13_StopIssuedOnce ==
    \A c \in Conns : \A k \in DOMAIN timers[c] : timers[c][k].stops <= 1

\* The document a session read holds no positive disk limit for its volume:
\* the file was missing or unreadable, the record missing, or the limit 0.
NoStoredLimit(c, k) ==
    LET f == timers[c][k].store
        vol == VolumeOf(url[c])
    IN  \/ f.kind # "json"
        \/ vol \notin Ids
        \/ f.doc[vol].state = "absent"
        \/ f.doc[vol].diskLimit = 0

\* C14: a stats session whose disk limit is 0, or whose state record is
\* missing or unreadable, sends no sample with storageExceeded and never
\* stops the container (nor inspects it), whatever the volume size.
C14_NoLimitNoQuota ==
    \A c \in Conns : \A k \in DOMAIN timers[c] :
        NoStoredLimit(c, k) =>
            /\ timers[c][k].diskLimit = 0
            /\ ~timers[c][k].exceededSent
            /\ timers[c][k].stops = 0
            /\ \A f \in fetches :
                  (f.conn = c /\ f.sess = k) =>
                      /\ ~f.exceeded
                      /\ f.pc \in {"stats", "volume"}

\* A session with no limit has sent a sample while the volume may hold 1 MiB,
\* and the container still runs.
C14_Witness ==
    /\ file.kind # "json"
    /\ timers["w1"] # <<>>
    /\ NoStoredLimit("w1", 1)
    /\ Samples("w1") = 2
    /\ SessionContainer \in running

\* C15: once a connection is closed, none of its intervals is set and none of
\* its log streams is attached, and none becomes so later.
C15_CloseCancelsSession ==
    \A c \in Conns :
        readyState[c] = "CLOSED" =>
            /\ \A k \in DOMAIN timers[c] : ~timers[c][k].active
            /\ logStreams[c] = <<>>

\* C16: the chunks written while no exec session was attached have been sent
\* to the exec session that attached next.
C16_BufferedLinesDelivered ==
    \A c \in Conns :
        \A l \in flushedWith[c] :
            \E j \in DOMAIN wsOut[c] : wsOut[c][j] = formatLogMessage(l)

\* The scripts of the attempts, in the order of the attempts.
AttemptedScripts(a) == [k \in DOMAIN a |-> a[k].script]

\* C19: whatever the outcome of a script's download, the loop of
\* downloadInstallScripts goes on: no failure is raised to createContainer, the
\* scripts are attempted in the order of the list, and after the last one the
\* deployment goes on to replaceVariables, container.start and READY.
C19_ScriptFailureIgnored ==
    [][\A r \in Reqs :
          attempted'[r] # attempted[r] =>
              LET list == InstallScripts(body[r])
                  n == Len(attempted'[r])
              IN  /\ n <= Len(list)
                  /\ AttemptedScripts(attempted'[r]) = SubSeq(list, 1, n)
                  /\ pc'[r] = IF n < Len(list) THEN "provision" ELSE "replace"
                  /\ pending'[r] = pending[r]
                  /\ resp'[r] = resp[r]
      ]_vars

\* Both downloads failed and the deployment committed READY.
C19_Witness ==
    \E r \in Reqs :
        /\ Len(attempted[r]) = 2
        /\ \A k \in DOMAIN attempted[r] : ~attempted[r][k].downloaded
        /\ pc[r] = "done"
        /\ Last(commits[r]).state = "READY"
        /\ container[r] \in running

\* Request r has just written states.json: the "{}" that creates it, or the
\* document of its updateState.
Wrote(r) ==
    /\ pc[r] \in {"rs_create_data", "ws_data"}
    /\ pc'[r] # pc[r]

\* The document states.json held before the write that is completing.
DocBeforeWrite == IF file.kind = "json" THEN file.doc ELSE lastDoc

\* C20: a write of updateState(I, ...) leaves the record of every other
\* instance as the document held it before the write, and its final write
\* sets the record of I to the given {state, containerId, diskLimit}.
C20_OtherRecordsUntouched ==
    [][\A r \in Reqs :
          Wrote(r) =>
              /\ file'.kind = "json"
              /\ \A j \in Ids \ {body[r].Id} : file'.doc[j] = DocBeforeWrite[j]
              /\ pc[r] = "ws_data" => file'.doc[body[r].Id] = pending[r]
      ]_vars

\* C17: downloadFile waits after a 522 on attempts 1 and 2 only, for 60
\* seconds; a 522 on the last attempt causes no wait.
C17_WaitOnFirstTwoOnly ==
    \A k \in DOMAIN waits :
        /\ waits[k].ms = 60000
        /\ waits[k].attempt \in {1, 2}

\* downloadFile has returned after an attempt that got a 200 and whose
\* pipeline resolved.
Downloaded == dlpc = "returned" /\ requests # <<>> /\ Last(requests) = "200"

\* C18: downloadFile makes at most 3 requests, and it returns normally only
\* when an attempt downloaded the file: otherwise it ends with an error
\* raised to its caller.
C18_FailureIsRaised ==
    /\ Len(requests) <= 3
    /\ dlpc = "returned" => Downloaded

\* Request r has just run the readFile and JSON.parse of readStates.
ReadDocument(r) == pc[r] = "rs_read" /\ pc'[r] # "rs_read"

\* C21: every readStates finds a document that parses: none reads the file
\* while a write has it truncated.
C21_ReaderFindsDocument ==
    [][\A r \in Reqs : ReadDocument(r) => file.kind = "json"]_vars

\* The whole days, hours and minutes of the uptime the handler read.
UptimeDays == uptimeInSeconds \div 86400
UptimeHours == (uptimeInSeconds % 86400) \div 3600
UptimeMinutes == (uptimeInSeconds % 3600) \div 60
Answered == responseStats # Null
Component(n, unit) == ToString(n) \o unit

\* C22 as stated: the uptime is "Nd Nh Nm" with only the leading zero
\* components left out, and "0m" when all three are zero.
C22_LeadingZerosOmitted ==
    Answered =>
        responseStats =
            IF UptimeDays > 0
            THEN join(<<Component(UptimeDays, "d"), Component(UptimeHours, "h"),
                        Component(UptimeMinutes, "m")>>, " ")
            ELSE IF UptimeHours > 0
            THEN join(<<Component(UptimeHours, "h"),
                        Component(UptimeMinutes, "m")>>, " ")
            ELSE Component(UptimeMinutes, "m")

\* C22, amended: the uptime is the days, hours and minutes that are not zero,
\* in that order and separated by one space, and "0m" when all three are zero.
C22_ZeroComponentsOmitted ==
    Answered =>
        responseStats =
            IF UptimeDays = 0 /\ UptimeHours = 0 /\ UptimeMinutes = 0
            THEN "0m"
            ELSE join(SelectSeq(<<Component(UptimeDays, "d"),
                                  Component(UptimeHours, "h"),
                                  Component(UptimeMinutes, "m")>>,
                                LAMBDA part : part \notin {"0d", "0h", "0m"}),
                      " ")

\* An uptime of 1 day, 0 hours and 5 minutes was answered with "1d 5m".
C22_Witness ==
    /\ uptimeInSeconds = 86400 + 300
    /\ responseStats = "1d 5m"

\* The stages of a deployment, in the order of the handler; the responses 400
\* and 500 and the FAILED commit are no stages.
StageRank(e) ==
    CASE e = "volume" -> 1
      [] e = "INSTALLING" -> 2
      [] e = "pull" -> 3
      [] e = "drained" -> 4
      [] e = "create" -> 5
      [] e = "202" -> 6
      [] e = "script" -> 7
      [] e = "provision" -> 8
      [] e = "start" -> 9
      [] e = "READY" -> 10
      [] OTHER -> 0
Stages(r) == SelectSeq(trace[r], LAMBDA e : StageRank(e) > 0)
Before(r, e, f) ==
    \A k \in 1..Len(trace[r]) :
        trace[r][k] = f => \E j \in 1..(k - 1) : trace[r][j] = e

\* C23: the stages of a deployment come in the order port validation, volume,
\* INSTALLING commit, pull, drain without error, container creation, 202,
\* script downloads and variable replacement, start, READY. No stage is
\* repeated but the script download, the creation is attempted only after the
\* drain finished without error, and the start only after the 202.
C23_StagesInOrder ==
    \A r \in Reqs :
        /\ \A j, k \in 1..Len(Stages(r)) :
              j < k =>
                 \/ StageRank(Stages(r)[j]) < StageRank(Stages(r)[k])
                 \/ Stages(r)[j] = "script" /\ Stages(r)[k] = "script"
        /\ (variant = "fixed" /\ Did(r, "volume")) =>
              \A hp \in AllHostPorts(body[r].PortBindings) : ~OutsidePortRange(hp)
        /\ Before(r, "volume", "INSTALLING")
        /\ Before(r, "INSTALLING", "pull")
        /\ Before(r, "pull", "drained")
        /\ Before(r, "drained", "create")
        /\ Before(r, "create", "202")
        /\ Before(r, "202", "script")
        /\ Before(r, "202", "provision")
        /\ Before(r, "202", "start")
        /\ Before(r, "start", "READY")
        /\ (Did(r, "provision") =>
              Len(SelectSeq(trace[r], LAMBDA e : e = "script"))
                  = Len(InstallScripts(body[r])))
        /\ (Did(r, "start") /\ body[r].Scripts) => Did(r, "provision")

\* A deployment with install scripts went through every stage.
C23_Witness ==
    \E r \in Reqs :
        /\ variant = "fixed"
        /\ pc[r] = "done"
        /\ trace[r] = <<"volume", "INSTALLING", "pull", "drained", "create", "202",
                        "script", "script", "provision", "start", "READY">>

\* The lines of all the chunks emitted so far, in order.
RECURSIVE EmittedLines(_)
EmittedLines(events) ==
    IF events = <<>> THEN <<>>
    ELSE EmittedLines(SubSeq(events, 1, Len(events) - 1))
            \o events[Len(events)].chunk
RecordLines == SelectSeq(EmittedLines(emitted), LAMBDA l : l \in {ProgressLine, ErrorLine})
StreamOver == emitted # <<>> /\ Last(emitted).type \in {"end", "error"}

\* C24: once the stream is over, followProgress has called onFinished once,
\* with the records of all the lines that parse, in order, and with an error
\* if and only if the stream emitted "error" or the last line that parses is
\* an error record; malformed and blank lines, wherever they stand, change
\* nothing of this.
C24_ErrorIffLastRecordOrStream ==
    /\ ~StreamOver => finished = <<>>
    /\ StreamOver =>
          /\ Len(finished) = 1
          /\ Len(finished[1].output) = Len(RecordLines)
          /\ \A k \in 1..Len(RecordLines) :
                ("error" \in DOMAIN finished[1].output[k])
                    <=> (RecordLines[k] = ErrorLine)
          /\ (finished[1].err # Null)
                <=> \/ Last(emitted).type = "error"
                    \/ RecordLines # <<>> /\ Last(RecordLines) = ErrorLine

\* A stream whose error record is followed by a malformed and a blank line
\* ended, and onFinished got the error.
C24_Witness ==
    /\ StreamOver
    /\ Last(emitted).type = "end"
    /\ EmittedLines(emitted) = <<ErrorLine, MalformedLine, BlankLine>>
    /\ finished # <<>>
    /\ finished[1].err = "pull access denied"

\* What has gone over the socket of the runtime.
Probes(k, n) == {j \in 1..n : wire[j].call = k /\ wire[j].what = "probe"}
Answers(n) == {j \in 1..n : wire[j].what = "answer"}
VersionedRequests == {i \in 1..Len(wire) : wire[i].what = "request"}
KnownVersions == {"1.41", "1.47", FallbackVersion}

HasBuffer == SessionContainer \in DOMAIN containerLogs
AllDetached == \A c \in Conns : readyState[c] = "CLOSED" \/ execSessions[c] = 0

\* C26 as stated: the log buffer of a container exists only while an exec
\* session is attached to the container.
C26_BufferOnlyWhileAttached == HasBuffer => ExecAttached

\* C26, amended: the buffer is created when an exec session first attaches,
\* and it is never released: it stays, with every record it holds, when the
\* attached session closes, and the next session adds to it.
C26_BufferKept ==
    [][/\ HasBuffer' <=> EverAttached'
       /\ HasBuffer =>
             /\ HasBuffer'
             /\ Len(containerLogs[SessionContainer])
                   <= Len(containerLogs'[SessionContainer])
             /\ SubSeq(containerLogs'[SessionContainer], 1,
                       Len(containerLogs[SessionContainer]))
                   = containerLogs[SessionContainer]
      ]_vars

\* The session that filled the buffer has closed, another one has attached
\* since, and the buffer still holds the chunk.
C26_Witness ==
    /\ HasBuffer
    /\ containerLogs[SessionContainer] # <<>>
    /\ readyState["w1"] = "CLOSED" /\ execSessions["w1"] > 0
    /\ readyState["w2"] = "OPEN" /\ execSessions["w2"] > 0

\* C27: when an attempt of downloadFile has failed, the file at dir/filename
\* is deleted before the next attempt starts, and when downloadFile ends
\* without having downloaded, there is no file at dir/filename.
C27_FailedAttemptLeavesNoFile ==
    /\ (dlpc = "request" /\ attempt > 1) => ~onDisk
    /\ (dlpc \in {"returned", "threw"} /\ ~Downloaded) => ~onDisk

\* The banner frames among the frames sent to the client of c.
Banners(out) == Len(SelectSeq(out, LAMBDA f : f = "connected!"))
BannerSent(c) == Banners(wsOut'[c]) > Banners(wsOut[c])
BecomesAuthenticated(c) ==
    /\ readyState[c] = "OPEN"
    /\ lastMessage'[c] = AuthFrame(ConfigKey)
    /\ received'[c] # received[c]
    /\ isAuthenticated'[c]
    /\ readyState'[c] = "OPEN"

\* C28: the banner is sent exactly when a handshake succeeds and leaves the
\* connection authenticated and open; a handshake that ends with the channel
\* being closed sends none.
C28_BannerOnlyOnSuccess ==
    [][\A c \in Conns : BannerSent(c) <=> BecomesAuthenticated(c)]_vars

\* C29: a create request is answered at most once, and when its handler has
\* come to its end it has been answered exactly once, with 400, 202 or 500.
C29_ExactlyOneResponse ==
    \A r \in Reqs :
        /\ Len(resp[r]) <= 1
        /\ Finished(r) =>
              /\ Len(resp[r]) = 1
              /\ resp[r][1].status \in {400, 202, 500}

\* C30: a connection has at most one active session: at most one stats
\* interval that is set and at most one log stream that is attached.
C30_OneSessionPerConnection ==
    \A c \in Conns :
        /\ Cardinality({k \in DOMAIN timers[c] : timers[c][k].active}) <= 1
        /\ Len(logStreams[c]) <= 1

\* The lines of the stream when it arrives as one chunk: the last line of a
\* chunk and the first line of the next one are one line.
RECURSIVE WholeStream(_)
WholeStream(events) ==
    IF events = <<>> THEN <<EmptyLine>>
    ELSE LET before == WholeStream(SubSeq(events, 1, Len(events) - 1))
             chunk == events[Len(events)].chunk
         IN  SubSeq(before, 1, Len(before) - 1)
                \o <<before[Len(before)] \o chunk[1]>>
                \o Tail(chunk)
EmittedData == SelectSeq(emitted, LAMBDA e : e.type = "data")

\* The stream is newline-delimited JSON: each of its lines is a record, or
\* blank.
NewlineDelimitedJson ==
    \A k \in DOMAIN WholeStream(EmittedData) :
        \/ WholeStream(EmittedData)[k] \in Blanks
        \/ JSONparse(WholeStream(EmittedData)[k]) # SyntaxError

\* C31: for a stream of newline-delimited JSON records, the records
\* followProgress hands to onFinished, and the error it reports at the end of
\* the stream, are those it hands over when the whole stream arrives as a
\* single chunk, however the stream was cut into chunks.
C31_ChunkingDoesNotMatter ==
    (StreamOver /\ NewlineDelimitedJson) =>
        /\ finished[1].output = OnData(<<>>, WholeStream(EmittedData))
        /\ Last(emitted).type = "end" =>
              finished[1].err = LastError(OnData(<<>>, WholeStream(EmittedData)))

\* How many times the buffer of the container holds the chunk.
TimesBuffered(l) ==
    IF HasBuffer
    THEN Len(SelectSeq(containerLogs[SessionContainer], LAMBDA m : m = l))
    ELSE 0

\* C32: the shared buffer of a container holds nothing but chunks the
\* container has emitted, and each of them once at most, however many exec
\* sessions are attached to the container; also when no client has set up
\* more than one session on its connection.
C32_ChunkBufferedOnce ==
    (\A c \in Conns : execSessions[c] <= 1) =>
        /\ \A k \in 1..produced : TimesBuffered(Lines[k]) <= 1
        /\ \A k \in (produced + 1)..Len(Lines) : TimesBuffered(Lines[k]) = 0

====
